---- MODULE Spec2Model ----
(***************************************************************************)
(* Brokerage account dashboard (Jon-Webb-79/account).                      *)
(*                                                                         *)
(* Seven state machines share this module:                                 *)
(*   Spec         the dashboard: uploads, generated fund buttons, clicks   *)
(*                and the callbacks each click fires                       *)
(*                (button_callbacks.py, layout.py);                        *)
(*   RequestSpec  the two resolver callbacks applied to a request whose    *)
(*                trigger and button-state snapshot are drawn from bounded *)
(*                sets (the callback's arguments come from the client);    *)
(*   DbSpec       one SQLiteDB accessor and the connections it opens       *)
(*                (db.py);                                                 *)
(*   SeriesSpec   create_position_df and _filter_dataframe_by_duration     *)
(*                applied to ledgers drawn from bounded sets;              *)
(*   QuerySpec    SQLiteDB.execute_query applied to statements and         *)
(*                parameter tuples drawn from bounded sets, over one       *)
(*                store and one connection (db.py);                        *)
(*   ConcSpec     requests served concurrently, each through an accessor   *)
(*                of its own (db.py);                                      *)
(*   SchemaSpec   create_database and create_position_table applied to a   *)
(*                store file (db.py).                                      *)
(*                                                                         *)
(* Text that the code parses is modelled as a sequence of tokens: a name   *)
(* is the sequence of its characters, a date is <<month, day, year>>.      *)
(* Floating-point values are exact rationals plus inf, -inf and nan.       *)
(***************************************************************************)
EXTENDS Integers, Sequences, FiniteSets, TLC

VARIABLES
    \* ---- dashboard (dcc.Store values, component properties) -------------
    dbPath,         \* dcc.Store "db-path": name of the uploaded store, or NoPath
    fundList,       \* dcc.Store "fund-list"
    fundButtons,    \* children of "funds-buttons": <<[index, className]>>
    durationClass,  \* className of the six duration buttons, in label order
    trigger,        \* callback_context.triggered of the request being served
    pending,        \* callbacks still to run for that request
    loadOut,        \* what load_and_store_data last did
    valueOut,       \* what update_value_display last did
    interacted,     \* a button has been clicked since the page was loaded
    clicked,        \* history: the fund clicked last since the fund buttons
                    \* were generated and the duration clicked last, or none
    \* ---- storage accessor ----------------------------------------------
    dbObj,          \* the SQLiteDB instance: [database, conn, cur]
    conns,          \* every connection opened so far: <<[target, open]>>
    dbPc,           \* where the `with SQLiteDB(...)` statement stands
    dbOut,          \* what the last accessor call did
    \* ---- metrics engine and duration filter ---------------------------
    ledger,         \* the rows storage returns for `SELECT * FROM fund`
    series,         \* what create_position_df returned for them
    token,          \* the duration token last handed to the filter
    filtered,       \* what _filter_dataframe_by_duration returned
    \* ---- execute_query --------------------------------------------------
    committed,      \* the store as any connection sees it: [exists, rows]
    txn,            \* this connection: [active, view], view as committed
    qOut,           \* what the last execute_query call did
    \* ---- concurrent requests ------------------------------------------
    reqs,           \* each request in progress: [pc, req, conn, result]
    pool,           \* connections open(ed) for them: <<[owner, open]>>
    \* ---- table creation ------------------------------------------------
    schema,         \* names of the tables in the store file
    calls           \* the creation calls made on it: <<[op, arg, ok, err]>>

uiVars == <<dbPath, fundList, fundButtons, durationClass, trigger, pending,
            loadOut, valueOut, interacted, clicked>>
dbVars == <<dbObj, conns, dbPc, dbOut>>
seriesVars == <<ledger, series, token, filtered>>
queryVars == <<committed, txn, qOut>>
concVars == <<reqs, pool>>
schemaVars == <<schema, calls>>
vars == <<dbPath, fundList, fundButtons, durationClass, trigger, pending,
          loadOut, valueOut, interacted, clicked, dbObj, conns, dbPc, dbOut,
          ledger, series, token, filtered, committed, txn, qOut, reqs, pool,
          schema, calls>>

(***************************************************************************)
(* Names.  A name is the sequence of its characters.                       *)
(***************************************************************************)
SPY == <<"S", "P", "Y">>
VOO == <<"V", "O", "O">>
QQQ == <<"Q", "Q", "Q">>
BRK_B == <<"B", "R", "K", ".", "B">>
FundsTable == <<"F", "u", "n", "d", "s">>
Total == <<"T", "o", "t", "a", "l">>
YTD == <<"Y", "T", "D">>
OneYR == <<"1", "Y", "R">>
ThreeMO == <<"3", "M", "O">>
OneMO == <<"1", "M", "O">>
OneWK == <<"1", "W", "K">>
FiveYR == <<"5", "Y", "R">>
none == <<"n", "o", "n", "e">>

\* layout.py:24
button_labels == <<Total, YTD, OneYR, ThreeMO, OneMO, OneWK>>

Active == "dynamic-button-active"
Inactive == "dynamic-button"

Range(s) == {s[i] : i \in 1..Len(s)}

(***************************************************************************)
(* Component ids and callback_context.triggered.                           *)
(* Dash names a pattern-matching component by the JSON text of its id,     *)
(* keys sorted, and a trigger by that text, a "." and the property.        *)
(***************************************************************************)
ButtonId(type, index) == [type |-> type, index |-> index]

stringify_id(id) ==
    <<"{", "\"index\"", ":", "\"">> \o id.index
    \o <<"\"", ",", "\"type\"", ":", "\"", id.type, "\"", "}">>

prop_id(id, prop) == stringify_id(id) \o <<".", prop>>

NoTrigger == [present |-> FALSE, prop_id |-> <<>>]
Triggered(id) == [present |-> TRUE, prop_id |-> prop_id(id, "n_clicks")]

\* str.split(".")[0]: the text before the first "."
split_dot_0(s) ==
    IF \E i \in 1..Len(s) : s[i] = "."
    THEN LET i == CHOOSE k \in 1..Len(s) :
                      s[k] = "." /\ \A j \in 1..(k - 1) : s[j] # "."
         IN SubSeq(s, 1, i - 1)
    ELSE s

\* json.loads of the text of a {"index": .., "type": ..} object
json_loads(s) ==
    LET n == Len(s)
        wellFormed ==
            /\ n >= 12
            /\ SubSeq(s, 1, 4) = <<"{", "\"index\"", ":", "\"">>
            /\ SubSeq(s, n - 7, n - 3) = <<"\"", ",", "\"type\"", ":", "\"">>
            /\ SubSeq(s, n - 1, n) = <<"\"", "}">>
            /\ \A i \in 5..(n - 8) : s[i] # "\""
    IN IF wellFormed
       THEN [ok |-> TRUE, type |-> s[n - 2], index |-> SubSeq(s, 5, n - 8)]
       ELSE [ok |-> FALSE, type |-> "", index |-> <<>>]

(***************************************************************************)
(* Floating point: exact rationals n/d (d > 0, lowest terms), inf, -inf    *)
(* and nan, with the IEEE rules pandas applies (no operation raises).      *)
(***************************************************************************)
Abs(x) == IF x < 0 THEN -x ELSE x

RECURSIVE Gcd(_, _)
Gcd(a, b) == IF b = 0 THEN a ELSE Gcd(b, a % b)

NaN == [k |-> "nan", n |-> 0, d |-> 1]
PosInf == [k |-> "inf", n |-> 1, d |-> 1]
NegInf == [k |-> "inf", n |-> -1, d |-> 1]
Num(n, d) ==
    LET g == Gcd(Abs(n), Abs(d))
        sgn == IF d < 0 THEN -1 ELSE 1
    IN [k |-> "num", n |-> (sgn * n) \div g, d |-> Abs(d) \div g]
Flt(i) == Num(i, 1)

FNeg(a) == IF a.k = "nan" THEN NaN ELSE [a EXCEPT !.n = -a.n]

FAdd(a, b) ==
    CASE a.k = "nan" \/ b.k = "nan" -> NaN
      [] a.k = "inf" /\ b.k = "inf" -> IF a.n = b.n THEN a ELSE NaN
      [] a.k = "inf" -> a
      [] b.k = "inf" -> b
      [] OTHER -> Num(a.n * b.d + b.n * a.d, a.d * b.d)

FSub(a, b) == FAdd(a, FNeg(b))

Sign(x) == IF x < 0 THEN -1 ELSE 1

FMul(a, b) ==
    CASE a.k = "nan" \/ b.k = "nan" -> NaN
      [] a.k = "inf" \/ b.k = "inf" ->
            IF a.n = 0 \/ b.n = 0 THEN NaN
            ELSE IF Sign(a.n) = Sign(b.n) THEN PosInf ELSE NegInf
      [] OTHER -> Num(a.n * b.n, a.d * b.d)

FDiv(a, b) ==
    CASE a.k = "nan" \/ b.k = "nan" -> NaN
      [] a.k = "inf" /\ b.k = "inf" -> NaN
      [] a.k = "inf" -> IF Sign(a.n) = Sign(b.n) THEN PosInf ELSE NegInf
      [] b.k = "inf" -> Flt(0)
      [] b.n = 0 -> IF a.n = 0 THEN NaN
                    ELSE IF a.n > 0 THEN PosInf ELSE NegInf
      [] OTHER -> Num(a.n * b.d, a.d * b.n)

(***************************************************************************)
(* Calendar dates.  Stored text MM-DD-YYYY is <<month, day, year>>; a      *)
(* parsed date is [y, m, d], ordered by its day number.                    *)
(***************************************************************************)
IsLeap(y) == (y % 4 = 0 /\ y % 100 # 0) \/ y % 400 = 0

DaysInMonth(y, m) ==
    CASE m \in {4, 6, 9, 11} -> 30
      [] m = 2 -> IF IsLeap(y) THEN 29 ELSE 28
      [] OTHER -> 31

RECURSIVE DaysBeforeMonth(_, _)
DaysBeforeMonth(y, m) ==
    IF m = 1 THEN 0 ELSE DaysBeforeMonth(y, m - 1) + DaysInMonth(y, m - 1)

DaysBeforeYear(y) ==
    (y - 1) * 365 + ((y - 1) \div 4) - ((y - 1) \div 100) + ((y - 1) \div 400)

Ordinal(dt) == DaysBeforeYear(dt.y) + DaysBeforeMonth(dt.y, dt.m) + dt.d

Min(a, b) == IF a < b THEN a ELSE b

\* pd.to_datetime(text, format="%m-%d-%Y")
to_datetime(text) == [y |-> text[3], m |-> text[1], d |-> text[2]]

\* t - pd.DateOffset(months=k): same day of the earlier month, clamped to its end
minus_months(dt, k) ==
    LET tot == dt.y * 12 + (dt.m - 1) - k
        y2 == tot \div 12
        m2 == (tot % 12) + 1
    IN [y |-> y2, m |-> m2, d |-> Min(dt.d, DaysInMonth(y2, m2))]

(***************************************************************************)
(* Position metrics engine: create_position_df (db.py).                    *)
(* A ledger row is [Date, Credit, Close] with Date the stored text; a      *)
(* derived row carries the parsed Date and the four derived columns.       *)
(***************************************************************************)
\* cumsum that does not accumulate
cumsum_row_only(rows, i) == Flt(rows[i].Credit)

\* Series.cumsum()
RECURSIVE cumsum(_, _)
cumsum(rows, i) ==
    IF i = 0 THEN Flt(0) ELSE FAdd(cumsum(rows, i - 1), Flt(rows[i].Credit))

\* shift(1) that fills the first row with 0
shift_close_zero_filled(rows, i) == IF i = 1 THEN Flt(0) ELSE Flt(rows[i - 1].Close)

\* Series.shift(1): the previous row's Close, nan in the first row
shift_close(rows, i) == IF i = 1 THEN NaN ELSE Flt(rows[i - 1].Close)

position_metrics(rows) ==
    [i \in 1..Len(rows) |->
        LET close == Flt(rows[i].Close)
            credit == Flt(rows[i].Credit)
            cum == cumsum(rows, i)
            delta == FSub(close, FAdd(shift_close(rows, i), credit))
        IN [Date |-> to_datetime(rows[i].Date),
            Credit |-> credit,
            Close |-> close,
            CumCredit |-> cum,
            DollarDelta |-> delta,
            PercDelta |-> FMul(FDiv(delta, close), Flt(100)),
            Percentage |-> FMul(FSub(FDiv(close, cum), Flt(1)), Flt(100))]]

\* DataFrame.sort_values(by="Date"): a new frame, rows in ascending Date order
RECURSIVE sort_values(_)
sort_values(df) ==
    IF df = <<>> THEN <<>>
    ELSE LET i == CHOOSE k \in 1..Len(df) :
                      \A j \in 1..Len(df) :
                          \/ Ordinal(df[k].Date) < Ordinal(df[j].Date)
                          \/ (Ordinal(df[k].Date) = Ordinal(df[j].Date) /\ k <= j)
         IN <<df[i]>> \o sort_values(SubSeq(df, 1, i - 1) \o SubSeq(df, i + 1, Len(df)))

\* create_position_df that returns the frame sorted by Date
derive_position_df_sorted(rows) == sort_values(position_metrics(rows))

\* db.py:278-290 on the rows the query returned.  Line 289 builds the sorted
\* frame and drops it: the frame returned is the one computed in row order.
derive_position_df(rows) ==
    LET df == position_metrics(rows)
        dropped == sort_values(df)
    IN df

(***************************************************************************)
(* Duration filter: _filter_dataframe_by_duration (button_callbacks.py).   *)
(***************************************************************************)
RECURSIVE max_ordinal(_)
max_ordinal(df) ==
    IF Len(df) = 1 THEN Ordinal(df[1].Date)
    ELSE LET rest == max_ordinal(Tail(df))
         IN IF Ordinal(df[1].Date) > rest THEN Ordinal(df[1].Date) ELSE rest

\* df["Date"].max(): the latest date, NaT for an empty frame
latest_date(df) ==
    IF df = <<>> THEN [nat |-> TRUE, y |-> 0, m |-> 0, d |-> 0]
    ELSE LET o == max_ordinal(df)
             r == CHOOSE x \in Range(df) : Ordinal(x.Date) = o
         IN [nat |-> FALSE, y |-> r.Date.y, m |-> r.Date.m, d |-> r.Date.d]

\* start_date with the month counts of 3MO and 1MO exchanged
start_date_months_exchanged(latest, duration) ==
    LET at(o) == [bound |-> TRUE, raised |-> FALSE, nat |-> latest.nat, ord |-> o]
    IN CASE duration = YTD ->
              IF latest.nat
              THEN [bound |-> FALSE, raised |-> TRUE, nat |-> TRUE, ord |-> 0]
              ELSE at(Ordinal([y |-> latest.y, m |-> 1, d |-> 1]))
         [] duration = OneYR ->
              at(IF latest.nat THEN 0 ELSE Ordinal(minus_months(latest, 12)))
         [] duration = ThreeMO ->
              at(IF latest.nat THEN 0 ELSE Ordinal(minus_months(latest, 1)))
         [] duration = OneMO ->
              at(IF latest.nat THEN 0 ELSE Ordinal(minus_months(latest, 3)))
         [] duration = OneWK ->
              at(IF latest.nat THEN 0 ELSE Ordinal(latest) - 7)
         [] OTHER -> [bound |-> FALSE, raised |-> FALSE, nat |-> latest.nat, ord |-> 0]

\* start_date counted back from the day of the request, not from the latest
\* date of the series
start_date_from_today(latest, duration) ==
    LET today == [nat |-> FALSE, y |-> 2024, m |-> 6, d |-> 15]
        at(o) == [bound |-> TRUE, raised |-> FALSE, nat |-> latest.nat, ord |-> o]
    IN CASE duration = YTD ->
              IF latest.nat
              THEN [bound |-> FALSE, raised |-> TRUE, nat |-> TRUE, ord |-> 0]
              ELSE at(Ordinal([y |-> today.y, m |-> 1, d |-> 1]))
         [] duration = OneYR ->
              at(IF latest.nat THEN 0 ELSE Ordinal(minus_months(today, 12)))
         [] duration = ThreeMO ->
              at(IF latest.nat THEN 0 ELSE Ordinal(minus_months(today, 3)))
         [] duration = OneMO ->
              at(IF latest.nat THEN 0 ELSE Ordinal(minus_months(today, 1)))
         [] duration = OneWK ->
              at(IF latest.nat THEN 0 ELSE Ordinal(today) - 7)
         [] OTHER -> [bound |-> FALSE, raised |-> FALSE, nat |-> latest.nat, ord |-> 0]


\* lines 461-470: the cutoff as a day number.  bound = FALSE: no branch
\* assigned start_date; raised: building the Timestamp raised; nat: NaT.
start_date(latest, duration) ==
    LET at(o) == [bound |-> TRUE, raised |-> FALSE, nat |-> latest.nat, ord |-> o]
    IN CASE duration = YTD ->
              IF latest.nat
              THEN [bound |-> FALSE, raised |-> TRUE, nat |-> TRUE, ord |-> 0]
              ELSE at(Ordinal([y |-> latest.y, m |-> 1, d |-> 1]))
         [] duration = OneYR ->
              at(IF latest.nat THEN 0 ELSE Ordinal(minus_months(latest, 12)))
         [] duration = ThreeMO ->
              at(IF latest.nat THEN 0 ELSE Ordinal(minus_months(latest, 3)))
         [] duration = OneMO ->
              at(IF latest.nat THEN 0 ELSE Ordinal(minus_months(latest, 1)))
         [] duration = OneWK ->
              at(IF latest.nat THEN 0 ELSE Ordinal(latest) - 7)
         [] OTHER -> [bound |-> FALSE, raised |-> FALSE, nat |-> latest.nat, ord |-> 0]

\* the filter with Date > start_date in place of >=
filter_dataframe_by_duration_strict(df, duration) ==
    IF duration = Total
    THEN [kind |-> "rows", err |-> "", rows |-> df]
    ELSE LET start == start_date(latest_date(df), duration)
             keep(r) == ~start.nat /\ Ordinal(r.Date) > start.ord
         IN CASE start.raised -> [kind |-> "error", err |-> "ValueError", rows |-> <<>>]
              [] ~start.bound ->
                    [kind |-> "error", err |-> "UnboundLocalError", rows |-> <<>>]
              [] OTHER -> [kind |-> "rows", err |-> "", rows |-> SelectSeq(df, keep)]

\* the filter without the early return of lines 458-459
filter_dataframe_by_duration_no_total(df, duration) ==
    LET start == start_date(latest_date(df), duration)
        keep(r) == ~start.nat /\ Ordinal(r.Date) >= start.ord
    IN CASE start.raised -> [kind |-> "error", err |-> "ValueError", rows |-> <<>>]
         [] ~start.bound ->
               [kind |-> "error", err |-> "UnboundLocalError", rows |-> <<>>]
         [] OTHER -> [kind |-> "rows", err |-> "", rows |-> SelectSeq(df, keep)]

filter_dataframe_by_duration(df, duration) ==
    IF duration = Total
    THEN [kind |-> "rows", err |-> "", rows |-> df]
    ELSE LET start == start_date(latest_date(df), duration)
             keep(r) == ~start.nat /\ Ordinal(r.Date) >= start.ord
         IN CASE start.raised -> [kind |-> "error", err |-> "ValueError", rows |-> <<>>]
              [] ~start.bound ->
                    [kind |-> "error", err |-> "UnboundLocalError", rows |-> <<>>]
              [] OTHER -> [kind |-> "rows", err |-> "", rows |-> SelectSeq(df, keep)]

(***************************************************************************)
(* Storage accessor: class SQLiteDB (db.py).                               *)
(* A path is a usable database, a file that is not a database (connect     *)
(* succeeds, the first statement raises) or a path that cannot be opened   *)
(* (connect raises).  A connection is named by its place in conns; 0 is    *)
(* None.  The cursor keeps its connection referenced.                      *)
(***************************************************************************)
MainDb == "main.db"
OtherDb == "other.db"
NotADb == "notes.txt"
Unopenable == "/nodir/x.db"
Paths == {MainDb, OtherDb, NotADb, Unopenable}

PathKind(p) ==
    CASE p \in {MainDb, OtherDb} -> "db"
      [] p = NotADb -> "notadb"
      [] OTHER -> "unopenable"

TablesAt(p) ==
    CASE p = MainDb -> {FundsTable, SPY}
      [] p = OtherDb -> {FundsTable, VOO}
      [] OTHER -> {}

NoObj == [database |-> "", conn |-> 0, cur |-> 0]
DbCall(op, kind, err, arg, orig, tables) ==
    [op |-> op, kind |-> kind, err |-> err, arg |-> arg, orig |-> orig,
     tables |-> tables]
NoCall == DbCall("", "ok", "", "", "", {})

\* _create_connection: [obj, conns, raised]
create_connection(obj, cs) ==
    IF PathKind(obj.database) = "unopenable"
    THEN [obj |-> obj, conns |-> cs, raised |-> TRUE]
    ELSE [obj |-> [obj EXCEPT !.conn = Len(cs) + 1, !.cur = Len(cs) + 1],
          conns |-> Append(cs, [target |-> obj.database, open |-> TRUE]),
          raised |-> FALSE]

\* close_connection: [obj, conns]
close_connection(obj, cs) ==
    IF obj.conn # 0
    THEN [obj |-> [obj EXCEPT !.conn = 0],
          conns |-> [cs EXCEPT ![obj.conn].open = FALSE]]
    ELSE [obj |-> obj, conns |-> cs]

\* pd.read_sql_query(query, self.conn) of get_database_tables; a failure
\* leaves pandas as its DatabaseError
tables_query(obj, cs) ==
    IF obj.conn = 0 \/ PathKind(obj.database) # "db"
    THEN [ok |-> FALSE, tables |-> {}]
    ELSE [ok |-> TRUE, tables |-> TablesAt(obj.database)]

\* SQLiteDB.get_database_tables(database): [obj, conns, call]
get_database_tables(obj, cs, database) ==
    IF database = ""
    THEN LET q == tables_query(obj, cs)
         IN [obj |-> obj, conns |-> cs,
             call |-> DbCall("get_database_tables",
                             IF q.ok THEN "ok" ELSE "error",
                             IF q.ok THEN "" ELSE "DatabaseError",
                             database, obj.database, q.tables)]
    ELSE LET original_db == obj.database
             c1 == close_connection(obj, cs)
             o2 == [c1.obj EXCEPT !.database = database]
             c2 == create_connection(o2, c1.conns)
             q == tables_query(c2.obj, c2.conns)
             c3 == close_connection(c2.obj, c2.conns)
             o4 == [c3.obj EXCEPT !.database = original_db]
             c4 == create_connection(o4, c3.conns)
         IN CASE c2.raised ->
                    [obj |-> c2.obj, conns |-> c2.conns,
                     call |-> DbCall("get_database_tables", "error",
                                     "ConnectionError", database, original_db, {})]
              [] ~q.ok ->
                    [obj |-> c2.obj, conns |-> c2.conns,
                     call |-> DbCall("get_database_tables", "error",
                                     "DatabaseError", database, original_db, {})]
              [] c4.raised ->
                    [obj |-> c4.obj, conns |-> c4.conns,
                     call |-> DbCall("get_database_tables", "error",
                                     "ConnectionError", database, original_db, {})]
              [] OTHER ->
                    [obj |-> c4.obj, conns |-> c4.conns,
                     call |-> DbCall("get_database_tables", "ok", "",
                                     database, original_db, q.tables)]

\* self._cur.execute(f"PRAGMA table_info({table_name})") and fetchall, lines
\* 108-114 and 144-150: the cursor belongs to the connection it was made on
table_info(obj, cs, table_name) ==
    IF obj.cur = 0 \/ ~cs[obj.cur].open THEN [ok |-> FALSE, err |-> "ProgrammingError"]
    ELSE IF PathKind(cs[obj.cur].target) # "db" THEN [ok |-> FALSE, err |-> "DatabaseError"]
    ELSE IF table_name \notin TablesAt(cs[obj.cur].target)
    THEN [ok |-> FALSE, err |-> "does not exist"]
    ELSE [ok |-> TRUE, err |-> ""]

\* SQLiteDB.get_table_columns(table_name, database): [obj, conns, call]
get_table_columns(obj, cs, table_name, database) ==
    LET original_db == obj.database
    IN IF database = ""
       THEN LET q == table_info(obj, cs, table_name)
            IN [obj |-> obj, conns |-> cs,
                call |-> DbCall("get_table_columns",
                                IF q.ok THEN "ok" ELSE "error",
                                IF q.ok THEN "" ELSE "sqlite3.Error",
                                database, original_db, {})]
       ELSE LET c1 == close_connection(obj, cs)
                o2 == [c1.obj EXCEPT !.database = database]
                c2 == create_connection(o2, c1.conns)
                q == table_info(c2.obj, c2.conns, table_name)
                \* lines 167-169 and 174-176, the same on both paths
                o3 == [c2.obj EXCEPT !.database = original_db]
                c3 == close_connection(o3, c2.conns)
                c4 == create_connection(c3.obj, c3.conns)
            IN CASE c2.raised ->
                       [obj |-> c2.obj, conns |-> c2.conns,
                        call |-> DbCall("get_table_columns", "error",
                                        "ConnectionError", database, original_db, {})]
                 [] c4.raised ->
                       [obj |-> c4.obj, conns |-> c4.conns,
                        call |-> DbCall("get_table_columns", "error",
                                        "ConnectionError", database, original_db, {})]
                 [] OTHER ->
                       [obj |-> c4.obj, conns |-> c4.conns,
                        call |-> DbCall("get_table_columns",
                                        IF q.ok THEN "ok" ELSE "error",
                                        IF q.ok THEN "" ELSE "sqlite3.Error",
                                        database, original_db, {})]


\* Connections the instance still refers to (through _conn or its cursor)
Referenced(obj) == {obj.conn, obj.cur} \ {0}

MaxConns == 4

\* SQLiteDB(path): __init__ (db.py:22-24)
Construct(p) ==
    /\ dbPc = "none"
    /\ Len(conns) < MaxConns
    /\ LET c == create_connection([NoObj EXCEPT !.database = p], conns)
       IN IF c.raised
          THEN /\ dbOut' = DbCall("__init__", "error", "ConnectionError", p, p, {})
               /\ UNCHANGED <<dbObj, conns, dbPc>>
          ELSE /\ dbObj' = c.obj
               /\ conns' = c.conns
               /\ dbPc' = "constructed"
               /\ dbOut' = DbCall("__init__", "ok", "", p, p, {})
    /\ UNCHANGED <<uiVars, seriesVars, queryVars, concVars, schemaVars>>

\* `with ... as db:` entered: __enter__ (db.py:28-30)
Enter ==
    /\ dbPc = "constructed"
    /\ dbOut.op = "__init__"
    /\ Len(conns) < MaxConns
    /\ LET c == create_connection(dbObj, conns)
       IN /\ dbObj' = c.obj
          /\ conns' = c.conns
          /\ dbPc' = IF c.raised THEN "none" ELSE "entered"
          /\ dbOut' = DbCall("__enter__", IF c.raised THEN "error" ELSE "ok",
                             IF c.raised THEN "ConnectionError" ELSE "",
                             dbObj.database, dbObj.database, {})
    /\ UNCHANGED <<uiVars, seriesVars, queryVars, concVars, schemaVars>>

\* a call made on the instance may run unless the with-body has already raised
CanCall ==
    /\ dbPc \in {"constructed", "entered"}
    /\ ~(dbPc = "entered" /\ dbOut.kind = "error")

\* db.get_database_tables() and db.get_database_tables(database)
GetDatabaseTables(database) ==
    /\ CanCall
    /\ Len(conns) + 2 <= MaxConns
    /\ LET r == get_database_tables(dbObj, conns, database)
       IN /\ dbObj' = r.obj
          /\ conns' = r.conns
          /\ dbOut' = r.call
    /\ UNCHANGED <<dbPc, uiVars, seriesVars, queryVars, concVars, schemaVars>>

\* db.get_table_columns(table_name) and db.get_table_columns(table_name, database)
GetTableColumns(table_name, database) ==
    /\ CanCall
    /\ Len(conns) + 2 <= MaxConns
    /\ LET r == get_table_columns(dbObj, conns, table_name, database)
       IN /\ dbObj' = r.obj
          /\ conns' = r.conns
          /\ dbOut' = r.call
    /\ UNCHANGED <<dbPc, uiVars, seriesVars, queryVars, concVars, schemaVars>>


\* the with-block is left, by return or because its body raised: __exit__
Exit ==
    /\ dbPc = "entered"
    /\ LET c == close_connection(dbObj, conns)
       IN /\ dbObj' = c.obj
          /\ conns' = c.conns
    /\ dbPc' = "left"
    /\ dbOut' = [dbOut EXCEPT !.op = "__exit__"]
    /\ UNCHANGED <<uiVars, seriesVars, queryVars, concVars, schemaVars>>

\* db.close_connection() called directly
CloseConnection ==
    /\ CanCall
    /\ LET c == close_connection(dbObj, conns)
       IN /\ dbObj' = c.obj
          /\ conns' = c.conns
    /\ dbOut' = DbCall("close_connection", "ok", "", "", dbObj.database, {})
    /\ UNCHANGED <<dbPc, uiVars, seriesVars, queryVars, concVars, schemaVars>>

\* The runtime may finalize a connection nothing refers to any more, which
\* closes it; the code never asks for it and the language does not promise it.
Finalize ==
    /\ \E i \in 1..Len(conns) :
          /\ conns[i].open
          /\ (dbPc = "left" \/ i \notin Referenced(dbObj))
          /\ conns' = [conns EXCEPT ![i].open = FALSE]
    /\ UNCHANGED <<dbObj, dbPc, dbOut, uiVars, seriesVars, queryVars, concVars, schemaVars>>

DbNext ==
    \/ \E p \in Paths : Construct(p)
    \/ Enter
    \/ \E p \in Paths \cup {""} : GetDatabaseTables(p)
    \/ \E t \in {SPY, QQQ}, p \in Paths \cup {""} : GetTableColumns(t, p)
    \/ Exit
    \/ CloseConnection
    \/ Finalize

DbIdle ==
    /\ dbObj = NoObj
    /\ conns = <<>>
    /\ dbPc = "none"
    /\ dbOut = NoCall

(***************************************************************************)
(* Uploaded stores, as the dashboard's queries see them.                   *)
(***************************************************************************)
NoPath == ""

Row(date, credit, close) == [Date |-> date, Credit |-> credit, Close |-> close]

\* is_db: the file name ends in ".db"; has_funds: a Funds table exists;
\* funds: the Fund column of Funds, in row order; ledgers: the fund tables
Store(is_db, has_funds, funds, ledgers) ==
    [is_db |-> is_db, has_funds |-> has_funds, funds |-> funds, ledgers |-> ledgers]

SpyLedger == <<Row(<<1, 1, 2023>>, 1000, 1000), Row(<<1, 3, 2023>>, 0, 1050)>>
BrkLedger == <<Row(<<1, 3, 2023>>, 1000, 1000)>>

Files ==
    [f \in {"a.db", "b.db", "dup.db", "self.db", "empty.db", "nomatch.db",
            "nofunds.db", "notes.txt"} |->
        CASE f = "a.db" ->
                Store(TRUE, TRUE, <<SPY, VOO>>,
                      [t \in {SPY, VOO} |-> IF t = SPY THEN SpyLedger ELSE <<>>])
          [] f = "b.db" ->
                Store(TRUE, TRUE, <<VOO, BRK_B, QQQ>>,
                      [t \in {VOO, BRK_B} |-> IF t = VOO THEN <<>> ELSE BrkLedger])
          [] f = "dup.db" ->
                Store(TRUE, TRUE, <<VOO, VOO, SPY>>,
                      [t \in {SPY, VOO} |-> IF t = SPY THEN SpyLedger ELSE <<>>])
          \* a Funds table that lists the name "Funds" itself
          [] f = "self.db" ->
                Store(TRUE, TRUE, <<SPY, FundsTable>>, [t \in {SPY} |-> SpyLedger])
          [] f = "empty.db" -> Store(TRUE, TRUE, <<>>, <<>>)
          [] f = "nomatch.db" -> Store(TRUE, TRUE, <<QQQ>>, <<>>)
          [] f = "nofunds.db" -> Store(TRUE, FALSE, <<>>, <<>>)
          [] OTHER -> Store(FALSE, FALSE, <<>>, <<>>)]

\* the Tables column of get_database_tables(db_name)
TableNames(st) ==
    (IF st.has_funds THEN {FundsTable} ELSE {}) \cup DOMAIN st.ledgers

\* `SELECT * FROM <account>;` through SQLiteDB.execute_query: the text is
\* spliced in unquoted, so a "." makes it schema.table, which no store has
select_all(db_name, account) ==
    IF db_name = NoPath
    THEN [ok |-> FALSE, err |-> "TypeError", rows |-> <<>>]
    ELSE IF "." \in Range(account) \/ account \notin DOMAIN Files[db_name].ledgers
    THEN [ok |-> FALSE, err |-> "sqlite3.Error", rows |-> <<>>]
    ELSE [ok |-> TRUE, err |-> "", rows |-> Files[db_name].ledgers[account]]

\* create_position_df(db_name, account): [ok, err, df]
create_position_df(db_name, account) ==
    LET q == select_all(db_name, account)
    IN IF db_name # NoPath /\ account = FundsTable /\ Files[db_name].has_funds
       \* the rows of Funds have no Date column: line 278 raises
       THEN [ok |-> FALSE, err |-> "KeyError", df |-> <<>>]
       ELSE [ok |-> q.ok, err |-> q.err,
             df |-> IF q.ok THEN derive_position_df(q.rows) ELSE <<>>]

\* create_funds_df(db_name): the Fund column, or a failed query
create_funds_df(db_name) ==
    IF Files[db_name].has_funds
    THEN [ok |-> TRUE, funds |-> Files[db_name].funds]
    ELSE [ok |-> FALSE, funds |-> <<>>]

\* unique that keeps every occurrence
unique_keeps_duplicates(s) == s

\* Series.unique(): first occurrences, in order
RECURSIVE unique(_)
unique(s) ==
    IF s = <<>> THEN <<>>
    ELSE LET front == unique(SubSeq(s, 1, Len(s) - 1))
             last == s[Len(s)]
         IN IF last \in Range(front) THEN front ELSE Append(front, last)

(***************************************************************************)
(* Callbacks of ButtonCallbackManager, as functions of their arguments.    *)
(***************************************************************************)
\* get_filename(contents, filename): the new value of db-path
get_filename(current, filename) ==
    IF ~Files[filename].is_db THEN current ELSE filename

\* lines 120-128: one button per valid fund, the first one active
fund_buttons(valid_funds) ==
    [i \in 1..Len(valid_funds) |->
        [index |-> valid_funds[i],
         className |-> IF i - 1 = 0 THEN Active ELSE Inactive]]

\* generate_fund_buttons(file_path): [update, buttons, funds]
generate_fund_buttons(file_path) ==
    LET df == create_funds_df(file_path)
        tables == TableNames(Files[file_path])
        valid_funds == SelectSeq(unique(df.funds), LAMBDA fund : fund \in tables)
    IN CASE ~df.ok -> [update |-> TRUE, buttons |-> <<>>, funds |-> <<>>]
         [] df.funds = <<>> -> [update |-> FALSE, buttons |-> <<>>, funds |-> <<>>]
         [] valid_funds = <<>> -> [update |-> FALSE, buttons |-> <<>>, funds |-> <<>>]
         [] OTHER -> [update |-> TRUE, buttons |-> fund_buttons(valid_funds),
                      funds |-> valid_funds]

\* update_fund_button_styles(n_clicks, funds): [update, classes]
update_fund_button_styles(trig, funds) ==
    LET info == json_loads(split_dot_0(trig.prop_id))
    IN IF funds = <<>> \/ ~trig.present \/ ~info.ok
       THEN [update |-> FALSE, classes |-> <<>>]
       ELSE [update |-> TRUE,
             classes |-> [i \in 1..Len(funds) |->
                            IF funds[i] = info.index THEN Active ELSE Inactive]]

\* update_duration_button_styles(n_clicks, durations): [update, classes]
update_duration_button_styles(trig, durations) ==
    LET info == json_loads(split_dot_0(trig.prop_id))
    IN IF ~trig.present
       THEN [update |-> TRUE,
             classes |-> [i \in 1..Len(durations) |->
                            IF durations[i] = Total THEN Active ELSE Inactive]]
       ELSE IF ~info.ok
       THEN [update |-> FALSE, classes |-> <<>>]
       ELSE [update |-> TRUE,
             classes |-> [i \in 1..Len(durations) |->
                            IF durations[i] = info.index THEN Active ELSE Inactive]]

\* create_layout: the duration buttons as first rendered (layout.py:99-108)
layout_duration_class ==
    [i \in 1..Len(button_labels) |->
        IF button_labels[i] # Total THEN Inactive ELSE Active]

(***************************************************************************)
(* The resolver callbacks: load_and_store_data and update_value_display.   *)
(* An outcome records how far the callback got: the pair it resolved       *)
(* (button_name, filter_time at the call of create_position_df), whether   *)
(* storage was queried, and what it returned or raised.                    *)
(***************************************************************************)
Outcome(kind, err, resolved, fund, duration, queried, rows) ==
    [kind |-> kind, err |-> err, resolved |-> resolved, fund |-> fund,
     duration |-> duration, queried |-> queried, rows |-> rows]
Idle == Outcome("idle", "", FALSE, <<>>, <<>>, FALSE, <<>>)
PreventUpdate == Outcome("PreventUpdate", "", FALSE, <<>>, <<>>, FALSE, <<>>)
Raised(err) == Outcome("error", err, FALSE, <<>>, <<>>, FALSE, <<>>)
Resolved(fund, duration) == Outcome("resolved", "", TRUE, fund, duration, FALSE, <<>>)

\* `for index, i in enumerate(cls): if i == "dynamic-button-active": ... break`:
\* the place of the first active marker, 0 when the loop ends without one
first_active(cls) ==
    IF \E i \in 1..Len(cls) : cls[i] = Active
    THEN CHOOSE i \in 1..Len(cls) :
             cls[i] = Active /\ \A j \in 1..(i - 1) : cls[j] # Active
    ELSE 0

\* lines 264-269 and 312-317: a fund button triggered
fund_triggered(button_name, duration_class, duration_id) ==
    LET a == first_active(duration_class)
    IN Resolved(button_name, IF a = 0 THEN Total ELSE duration_id[a].index)

\* the fund the loop of lines 274-277 (321-324) leaves in button_name
active_fund(fund_class, fund_id) ==
    LET a == first_active(fund_class)
    IN IF a = 0 THEN none ELSE fund_id[a].index

\* load_and_store_data_selection without the guard of lines 256-257
load_and_store_data_selection_unguarded(trig, duration_class, duration_id, fund_class, fund_id) ==
    LET triggered_info == json_loads(split_dot_0(trig.prop_id))
    IN IF ~triggered_info.ok THEN Raised("JSONDecodeError")
       ELSE IF triggered_info.type = "fund-button"
       THEN fund_triggered(triggered_info.index, duration_class, duration_id)
       ELSE LET button_name == active_fund(fund_class, fund_id)
            IN IF button_name # none
               THEN Resolved(button_name, triggered_info.index)
               ELSE IF fund_class = <<>> THEN Raised("UnboundLocalError")
               ELSE Raised("KeyError")

\* load_and_store_data_selection reading the fund off the fund markers also
\* when a fund button triggered
load_and_store_data_selection_from_markers(trig, duration_class, duration_id, fund_class, fund_id) ==
    IF ~trig.present THEN PreventUpdate
    ELSE LET triggered_info == json_loads(split_dot_0(trig.prop_id))
             button_name == active_fund(fund_class, fund_id)
         IN IF ~triggered_info.ok THEN Raised("JSONDecodeError")
            ELSE IF triggered_info.type = "fund-button"
            THEN fund_triggered(IF button_name # none THEN button_name
                                ELSE triggered_info.index,
                                duration_class, duration_id)
            ELSE IF button_name # none
                 THEN Resolved(button_name, triggered_info.index)
                 ELSE IF fund_class = <<>> THEN Raised("UnboundLocalError")
                 ELSE Raised("KeyError")


\* load_and_store_data, lines 256-279
load_and_store_data_selection(trig, duration_class, duration_id, fund_class, fund_id) ==
    IF ~trig.present THEN PreventUpdate
    ELSE LET triggered_info == json_loads(split_dot_0(trig.prop_id))
         IN IF ~triggered_info.ok THEN Raised("JSONDecodeError")
            ELSE IF triggered_info.type = "fund-button"
            THEN fund_triggered(triggered_info.index, duration_class, duration_id)
            ELSE LET button_name == active_fund(fund_class, fund_id)
                 IN IF button_name # none
                    THEN Resolved(button_name, triggered_info.index)
                    \* line 279, fund_id[index][0]: index is unbound when the
                    \* loop never ran, and an id has no key 0
                    ELSE IF fund_class = <<>> THEN Raised("UnboundLocalError")
                    ELSE Raised("KeyError")

\* update_value_display, lines 303-326
update_value_display_selection(trig, duration_class, duration_id, fund_class, fund_id) ==
    IF ~trig.present THEN PreventUpdate
    ELSE LET triggered_info == json_loads(split_dot_0(trig.prop_id))
         IN IF ~triggered_info.ok THEN Raised("JSONDecodeError")
            ELSE IF triggered_info.type = "fund-button"
            THEN fund_triggered(triggered_info.index, duration_class, duration_id)
            ELSE LET button_name == active_fund(fund_class, fund_id)
                 IN IF button_name # none
                    THEN Resolved(button_name, triggered_info.index)
                    \* line 326, fund_id[0]["index"]
                    ELSE IF fund_id = <<>> THEN Raised("IndexError")
                    ELSE Resolved(fund_id[1].index, triggered_info.index)

\* round half to even at two decimals; inf and nan stay
round_2(a) ==
    IF a.k # "num" THEN a
    ELSE LET x == a.n * 100
             f == x \div a.d
             r == x - f * a.d
             up == (2 * r > a.d) \/ (2 * r = a.d /\ f % 2 = 1)
         IN Num(IF up THEN f + 1 ELSE f, 100)

\* DataFrame.round(2): every float column
round_df(df) ==
    [i \in 1..Len(df) |->
        [Date |-> df[i].Date,
         Credit |-> round_2(df[i].Credit),
         Close |-> round_2(df[i].Close),
         CumCredit |-> round_2(df[i].CumCredit),
         DollarDelta |-> round_2(df[i].DollarDelta),
         PercDelta |-> round_2(df[i].PercDelta),
         Percentage |-> round_2(df[i].Percentage)]]

\* lines 281-289 and 329-355: query, empty check, filter, display.
\* reads_ends: the display reads the first and last filtered rows (iloc)
fetch_and_filter(sel, db_filename, reads_ends) ==
    IF sel.kind # "resolved" THEN sel
    ELSE LET q == create_position_df(db_filename, sel.fund)
             df == round_df(q.df)
             f == filter_dataframe_by_duration(df, sel.duration)
             asked == [sel EXCEPT !.queried = TRUE]
         IN CASE ~q.ok -> [asked EXCEPT !.kind = "error", !.err = q.err]
              [] df = <<>> -> [asked EXCEPT !.kind = "empty"]
              [] f.kind = "error" -> [asked EXCEPT !.kind = "error", !.err = f.err]
              [] reads_ends /\ f.rows = <<>> ->
                    [asked EXCEPT !.kind = "error", !.err = "IndexError"]
              [] OTHER -> [asked EXCEPT !.kind = "rendered", !.rows = f.rows]

load_and_store_data(trig, db_filename, duration_class, duration_id, fund_class, fund_id) ==
    fetch_and_filter(
        load_and_store_data_selection(trig, duration_class, duration_id,
                                      fund_class, fund_id),
        db_filename, FALSE)

update_value_display(trig, db_filename, duration_class, duration_id, fund_class, fund_id) ==
    fetch_and_filter(
        update_value_display_selection(trig, duration_class, duration_id,
                                       fund_class, fund_id),
        db_filename, TRUE)

(***************************************************************************)
(* The dashboard.  A click (or an upload) starts a request; the callbacks  *)
(* registered on what changed are then run one at a time, in any order,    *)
(* each reading the component properties as they are when it runs.  A new  *)
(* click or upload waits until the callbacks of the last one have run.     *)
(***************************************************************************)
fund_class == [i \in 1..Len(fundButtons) |-> fundButtons[i].className]
fund_id == [i \in 1..Len(fundButtons) |-> ButtonId("fund-button", fundButtons[i].index)]
duration_id ==
    [i \in 1..Len(button_labels) |-> ButtonId("duration-button", button_labels[i])]

\* nothing has been clicked
NoClick == [fund |-> none, duration |-> none]

UiInit ==
    /\ dbPath = NoPath
    /\ fundList = <<>>
    /\ fundButtons = <<>>
    /\ durationClass = layout_duration_class
    /\ trigger = NoTrigger
    \* the calls Dash makes when the page is first rendered; there is no trigger
    /\ pending = {"load", "value", "duration_styles"}
    /\ loadOut = Idle
    /\ valueOut = Idle
    /\ interacted = FALSE
    /\ clicked = NoClick
    /\ clicked = NoClick

\* a file is dropped on the upload component: get_filename
Upload(filename) ==
    /\ pending = {}
    /\ dbPath' = get_filename(dbPath, filename)
    /\ pending' = IF Files[filename].is_db THEN {"generate"} ELSE {}
    /\ trigger' = NoTrigger
    /\ UNCHANGED <<fundList, fundButtons, durationClass, loadOut, valueOut,
                   interacted, clicked, dbVars, seriesVars, queryVars, concVars, schemaVars>>

\* db-path changed: generate_fund_buttons.  Replacing the fund buttons
\* re-runs the callbacks that take them as Input, without a trigger.
GenerateFundButtons ==
    /\ "generate" \in pending
    /\ LET r == generate_fund_buttons(dbPath)
       IN IF r.update
          THEN /\ fundButtons' = r.buttons
               /\ fundList' = r.funds
               /\ pending' = (pending \ {"generate"}) \cup {"load", "value"}
               /\ clicked' = [clicked EXCEPT !.fund = none]
          ELSE /\ pending' = pending \ {"generate"}
               /\ UNCHANGED <<fundButtons, fundList, clicked>>
    /\ UNCHANGED <<dbPath, durationClass, trigger, loadOut, valueOut, interacted,
                   dbVars, seriesVars, queryVars, concVars, schemaVars>>

ClickFund(i) ==
    /\ pending = {}
    /\ i \in 1..Len(fundButtons)
    /\ trigger' = Triggered(fund_id[i])
    /\ pending' = {"fund_styles", "load", "value"}
    /\ interacted' = TRUE
    /\ clicked' = [clicked EXCEPT !.fund = fundButtons[i].index]
    /\ UNCHANGED <<dbPath, fundList, fundButtons, durationClass, loadOut, valueOut,
                   dbVars, seriesVars, queryVars, concVars, schemaVars>>

ClickDuration(i) ==
    /\ pending = {}
    /\ i \in 1..Len(button_labels)
    /\ trigger' = Triggered(duration_id[i])
    /\ pending' = {"duration_styles", "load", "value"}
    /\ interacted' = TRUE
    /\ clicked' = [clicked EXCEPT !.duration = button_labels[i]]
    /\ UNCHANGED <<dbPath, fundList, fundButtons, durationClass, loadOut, valueOut,
                   dbVars, seriesVars, queryVars, concVars, schemaVars>>

UpdateFundButtonStyles ==
    /\ "fund_styles" \in pending
    /\ pending' = pending \ {"fund_styles"}
    /\ LET r == update_fund_button_styles(trigger, fundList)
       IN fundButtons' =
              IF r.update /\ Len(r.classes) = Len(fundButtons)
              THEN [i \in 1..Len(fundButtons) |->
                       [fundButtons[i] EXCEPT !.className = r.classes[i]]]
              ELSE fundButtons
    /\ UNCHANGED <<dbPath, fundList, durationClass, trigger, loadOut, valueOut,
                   interacted, clicked, dbVars, seriesVars, queryVars, concVars, schemaVars>>

UpdateDurationButtonStyles ==
    /\ "duration_styles" \in pending
    /\ pending' = pending \ {"duration_styles"}
    /\ LET r == update_duration_button_styles(trigger, button_labels)
       IN durationClass' = IF r.update THEN r.classes ELSE durationClass
    /\ UNCHANGED <<dbPath, fundList, fundButtons, trigger, loadOut, valueOut,
                   interacted, clicked, dbVars, seriesVars, queryVars, concVars, schemaVars>>

\* load_and_store_data that keeps the fund of its previous result
LoadAndStoreData_remembering ==
    /\ "load" \in pending
    /\ pending' = pending \ {"load"}
    /\ LET r == load_and_store_data(trigger, dbPath, durationClass, duration_id,
                                    fund_class, fund_id)
       IN loadOut' = IF r.resolved /\ loadOut.resolved
                     THEN [r EXCEPT !.fund = loadOut.fund]
                     ELSE r
    /\ UNCHANGED <<dbPath, fundList, fundButtons, durationClass, trigger, valueOut,
                   interacted, clicked, dbVars, seriesVars, queryVars, concVars, schemaVars>>

LoadAndStoreData ==
    /\ "load" \in pending
    /\ pending' = pending \ {"load"}
    /\ loadOut' = load_and_store_data(trigger, dbPath, durationClass, duration_id,
                                      fund_class, fund_id)
    /\ UNCHANGED <<dbPath, fundList, fundButtons, durationClass, trigger, valueOut,
                   interacted, clicked, dbVars, seriesVars, queryVars, concVars, schemaVars>>

UpdateValueDisplay ==
    /\ "value" \in pending
    /\ pending' = pending \ {"value"}
    /\ valueOut' = update_value_display(trigger, dbPath, durationClass, duration_id,
                                        fund_class, fund_id)
    /\ UNCHANGED <<dbPath, fundList, fundButtons, durationClass, trigger, loadOut,
                   interacted, clicked, dbVars, seriesVars, queryVars, concVars, schemaVars>>

UiNext ==
    \/ \E f \in DOMAIN Files : Upload(f)
    \/ GenerateFundButtons
    \/ \E i \in 1..Len(fundButtons) : ClickFund(i)
    \/ \E i \in 1..Len(button_labels) : ClickDuration(i)
    \/ UpdateFundButtonStyles
    \/ UpdateDurationButtonStyles
    \/ LoadAndStoreData
    \/ UpdateValueDisplay

UiIdle ==
    /\ dbPath = NoPath
    /\ fundList = <<>>
    /\ fundButtons = <<>>
    /\ durationClass = layout_duration_class
    /\ trigger = NoTrigger
    /\ pending = {}
    /\ loadOut = Idle
    /\ valueOut = Idle
    /\ interacted = FALSE
    /\ clicked = NoClick
    /\ clicked = NoClick

(***************************************************************************)
(* A fund's ledger table and the pipeline over it: rows are inserted (Date *)
(* is the primary key), create_position_df reads them back in the order    *)
(* storage returns them, and the filter is applied to the result.          *)
(***************************************************************************)
MaxRows == 2

SampleDates ==
    {<<1, 2, 2022>>, <<12, 27, 2022>>, <<1, 1, 2023>>, <<1, 3, 2023>>,
     <<2, 28, 2023>>, <<3, 31, 2023>>}
SampleCredits == {0, 1000}
SampleCloses == {1000, 1050}
RecognizedTokens == Range(button_labels)
SampleTokens == RecognizedTokens \cup {FiveYR}

NoSeries == [done |-> FALSE, df |-> <<>>]
NoFilter == [kind |-> "idle", err |-> "", rows |-> <<>>]

SeriesIdle ==
    /\ ledger = <<>>
    /\ series = NoSeries
    /\ token = Total
    /\ filtered = NoFilter

\* INSERT INTO <fund> VALUES (date, credit, close); a second row for a Date
\* is refused by the primary key
InsertRow(date, credit, close) ==
    /\ Len(ledger) < MaxRows
    /\ \A i \in 1..Len(ledger) : ledger[i].Date # date
    /\ ledger' = Append(ledger, Row(date, credit, close))
    /\ series' = NoSeries
    /\ filtered' = NoFilter
    /\ token' = Total
    /\ UNCHANGED <<uiVars, dbVars, queryVars, concVars, schemaVars>>

\* create_position_df on the stored rows
ComputeSeries ==
    /\ ~series.done
    /\ series' = [done |-> TRUE, df |-> derive_position_df(ledger)]
    /\ UNCHANGED <<ledger, token, filtered, uiVars, dbVars, queryVars, concVars, schemaVars>>

\* _filter_dataframe_by_duration(df, duration)
FilterSeries(duration) ==
    /\ series.done
    /\ token' = duration
    /\ filtered' = filter_dataframe_by_duration(series.df, duration)
    /\ UNCHANGED <<ledger, series, uiVars, dbVars, queryVars, concVars, schemaVars>>

SeriesNext ==
    \/ \E date \in SampleDates, credit \in SampleCredits, close \in SampleCloses :
          InsertRow(date, credit, close)
    \/ ComputeSeries
    \/ \E duration \in SampleTokens : FilterSeries(duration)

(***************************************************************************)
(* A request to a resolver callback.  The trigger and the State values are *)
(* arguments the client sends, so they are drawn from bounded sets: groups *)
(* of distinct funds with at most one active marker each.                  *)
(***************************************************************************)
MaxFunds == 2

FundCodes == {SPY, VOO, BRK_B}
TriggerFunds == FundCodes \cup {QQQ}
TriggerDurations == Range(button_labels) \cup {FiveYR}

FundLists ==
    {s \in UNION {[1..n -> FundCodes] : n \in 0..MaxFunds} :
        \A i, j \in 1..Len(s) : i # j => s[i] # s[j]}

\* a group of buttons over `names`, the marker on member a (0: on none)
Marked(names, a) ==
    [i \in 1..Len(names) |->
        [index |-> names[i], className |-> IF i = a THEN Active ELSE Inactive]]

ClassesMarked(n, a) == [i \in 1..n |-> IF i = a THEN Active ELSE Inactive]

Triggers ==
    {NoTrigger}
    \cup {Triggered(ButtonId("fund-button", x)) : x \in TriggerFunds}
    \cup {Triggered(ButtonId("duration-button", x)) : x \in TriggerDurations}

DrawRequest ==
    /\ \E names \in FundLists, a \in 0..MaxFunds :
          /\ a <= Len(names)
          /\ fundButtons' = Marked(names, a)
          /\ fundList' = names
    /\ \E a \in 0..Len(button_labels) :
          durationClass' = ClassesMarked(Len(button_labels), a)
    /\ trigger' \in Triggers
    /\ dbPath' \in {NoPath, "a.db", "b.db"}
    /\ pending' = {"load", "value"}

NewRequest ==
    /\ pending = {}
    /\ ~interacted
    /\ DrawRequest
    /\ interacted' = TRUE
    /\ clicked' = NoClick
    /\ UNCHANGED <<loadOut, valueOut, dbVars, seriesVars, queryVars, concVars, schemaVars>>

\* both callbacks have answered; the server keeps nothing of the request
Respond ==
    /\ pending = {}
    /\ interacted
    /\ dbPath' = NoPath
    /\ fundList' = <<>>
    /\ fundButtons' = <<>>
    /\ durationClass' = layout_duration_class
    /\ trigger' = NoTrigger
    /\ loadOut' = Idle
    /\ valueOut' = Idle
    /\ interacted' = FALSE
    /\ clicked' = NoClick
    /\ UNCHANGED <<pending, dbVars, seriesVars, queryVars, concVars, schemaVars>>

RequestNext ==
    \/ NewRequest
    \/ LoadAndStoreData
    \/ UpdateValueDisplay
    \/ Respond

(***************************************************************************)
(* SQLiteDB.execute_query, over a store that holds at most one table t     *)
(* with an integer primary key, reached through one connection.  A         *)
(* statement is the sequence of its tokens; "?" and "%s" are placeholder   *)
(* tokens, "'?'" is a string literal that contains a question mark.        *)
(***************************************************************************)
MaxParams == 1

Keys == {"1", "2"}

Statements ==
    { <<"CREATE", "t">>, <<"DROP", "t">>,
      <<"INSERT", "1">>, <<"INSERT", "?">>, <<"INSERT", "%s">>,
      <<"INSERT", "2", "1">>, <<"INSERT", "OR FAIL", "2", "1">>,
      <<" ", "insert", "2">>, <<"INSERT", "2", "RETURNING">>,
      <<"REPLACE", "1">>, <<"DELETE", "1">>, <<"UPDATE", "2", "1">>,
      <<"SELECT", "t">>, <<"SELECT", "'?'">>, <<"SELEC", "t">> }

ParamTuples == UNION {[1..n -> Keys] : n \in 0..MaxParams}

\* line 188: query.replace("%s", "?")
str_replace(query) ==
    [i \in 1..Len(query) |-> IF query[i] = "%s" THEN "?" ELSE query[i]]

\* line 189: query.count("?"), every question mark in the text
count_qmark(query) ==
    Cardinality({i \in 1..Len(query) : query[i] \in {"?", "'?'"}})

\* str.strip(): leading blanks removed (no statement here ends in one)
RECURSIVE strip(_)
strip(query) ==
    IF query # <<>> /\ Head(query) = " " THEN strip(Tail(query)) ELSE query

\* str.upper() of a token
upper(tok) == IF tok = "insert" THEN "INSERT" ELSE tok

\* lines 197-201: the text starts with a mutating keyword
startswith_mutating(query) ==
    /\ strip(query) # <<>>
    /\ upper(Head(strip(query))) \in {"INSERT", "UPDATE", "DELETE", "CREATE", "DROP"}

\* ---- the engine behind cursor.execute / connection.commit ---------------
Db(exists, rows) == [exists |-> exists, rows |-> rows]
NoTable == Db(FALSE, {})

\* the statement's first keyword, as the engine reads it
Keyword(query) == IF strip(query) = <<>> THEN "" ELSE upper(Head(strip(query)))

\* the sqlite3 module opens a transaction before these
is_dml(query) == Keyword(query) \in {"INSERT", "UPDATE", "DELETE", "REPLACE"}

\* the parameters the engine expects: "?" tokens outside literals
placeholders(query) == Cardinality({i \in 1..Len(query) : query[i] = "?"})

references_table(query) ==
    \/ Keyword(query) \in {"DROP", "INSERT", "REPLACE", "DELETE", "UPDATE"}
    \/ Keyword(query) = "SELECT" /\ "t" \in Range(query)

RECURSIVE bind(_, _)
bind(toks, params) ==
    IF toks = <<>> THEN <<>>
    ELSE IF Head(toks) = "?"
    THEN <<Head(params)>> \o bind(Tail(toks), Tail(params))
    ELSE <<Head(toks)>> \o bind(Tail(toks), params)

\* the key values of the statement, parameters bound
operands(query, params) ==
    SelectSeq(bind(Tail(strip(query)), params),
              LAMBDA tok : tok \notin {"OR FAIL", "RETURNING"})

\* INSERT row by row: stops at the first key that is already present
RECURSIVE insert_each(_, _)
insert_each(rows, vals) ==
    IF vals = <<>> THEN [ok |-> TRUE, rows |-> rows]
    ELSE IF Head(vals) \in rows THEN [ok |-> FALSE, rows |-> rows]
    ELSE insert_each(rows \cup {Head(vals)}, Tail(vals))

EngineResult(ok, cls, msg, db, began, description, busy) ==
    [ok |-> ok, cls |-> cls, msg |-> msg, db |-> db, began |-> began,
     description |-> description, busy |-> busy]

\* cursor.execute(query, params) on the connection's view db: prepare, open
\* a transaction before a DML statement, bind, run.  A failed statement is
\* backed out (ABORT), except that OR FAIL keeps the rows written before the
\* failure; RETURNING leaves the statement in progress.
sqlite_execute(query, params, db) ==
    LET kw == Keyword(query)
        vals == operands(query, params)
        failed(cls, msg, began) == EngineResult(FALSE, cls, msg, db, began, FALSE, FALSE)
        done(rows, description, busy) ==
            EngineResult(TRUE, "", "", Db(TRUE, rows), is_dml(query), description, busy)
    IN IF kw \notin {"CREATE", "DROP", "INSERT", "REPLACE", "DELETE", "UPDATE", "SELECT"}
       THEN failed("OperationalError", "syntax error", FALSE)
       ELSE IF kw = "CREATE" /\ db.exists
       THEN failed("OperationalError", "table t already exists", FALSE)
       ELSE IF references_table(query) /\ ~db.exists
       THEN failed("OperationalError", "no such table: t", FALSE)
       ELSE IF placeholders(query) # Len(params)
       THEN failed("ProgrammingError", "Incorrect number of bindings supplied", is_dml(query))
       ELSE IF kw = "CREATE" THEN done({}, FALSE, FALSE)
       ELSE IF kw = "DROP"
       THEN EngineResult(TRUE, "", "", NoTable, FALSE, FALSE, FALSE)
       ELSE IF kw = "INSERT"
       THEN LET r == insert_each(db.rows, vals)
            IN IF r.ok THEN done(r.rows, "RETURNING" \in Range(query),
                                 "RETURNING" \in Range(query))
               ELSE EngineResult(FALSE, "IntegrityError", "UNIQUE constraint failed: t.x",
                                 IF "OR FAIL" \in Range(query)
                                 THEN Db(TRUE, r.rows) ELSE db,
                                 TRUE, FALSE, FALSE)
       ELSE IF kw = "REPLACE" THEN done(db.rows \cup Range(vals), FALSE, FALSE)
       ELSE IF kw = "DELETE" THEN done(db.rows \ Range(vals), FALSE, FALSE)
       ELSE IF kw = "UPDATE"
       \* UPDATE t SET x = vals[1] WHERE x = vals[2]
       THEN IF vals[2] \notin db.rows THEN done(db.rows, FALSE, FALSE)
            ELSE IF vals[1] \in db.rows /\ vals[1] # vals[2]
            THEN failed("IntegrityError", "UNIQUE constraint failed: t.x", TRUE)
            ELSE done((db.rows \ {vals[2]}) \cup {vals[1]}, FALSE, FALSE)
       ELSE done(db.rows, TRUE, FALSE)

\* ---- execute_query ------------------------------------------------------
Txn(active, view) == [active |-> active, view |-> view]

\* kind, err, msg: how the call ended; cls, engineMsg: the engine error behind
\* it; query, params: its arguments; before: the store and the connection
\* when it was made
QueryOut(kind, err, cls, engineMsg, msg, query, params, before) ==
    [kind |-> kind, err |-> err, cls |-> cls, engineMsg |-> engineMsg,
     msg |-> msg, query |-> query, params |-> params, before |-> before]
NoQuery ==
    QueryOut("idle", "", "", "", <<>>, <<>>, <<>>,
             [committed |-> NoTable, txn |-> Txn(FALSE, NoTable)])

\* translate that lets the engine's own error class through
translate_keeps_class(cls, msg) == [err |-> cls, msg |-> <<msg>>]

\* lines 211-215: what the except clauses raise for an engine error
translate(cls, msg) ==
    [err |-> "sqlite3.Error", msg |-> <<"Failed to execute query: ", msg>>]

\* execute_query(query, params) on connection t over store c:
\* [out, committed, txn]
execute_query(query0, params, c, t) ==
    LET query == str_replace(query0)
        out(kind, err, cls, engineMsg, msg) ==
            QueryOut(kind, err, cls, engineMsg, msg, query0, params,
                     [committed |-> c, txn |-> t])
        raised(cls, msg) ==
            out("error", translate(cls, msg).err, cls, msg, translate(cls, msg).msg)
    IN IF count_qmark(query) # Len(params)
       THEN [out |-> out("error", "ValueError", "", "", <<>>),
             committed |-> c, txn |-> t]
       ELSE LET r == sqlite_execute(query, params, t.view)
                active == t.active \/ r.began
                \* outside a transaction a statement is written through
                c1 == IF active THEN c ELSE r.db
                left == [committed |-> c1, txn |-> Txn(active, r.db)]
                saved == [committed |-> r.db, txn |-> Txn(FALSE, r.db)]
            IN IF ~r.ok
               THEN [out |-> raised(r.cls, r.msg)] @@ left
               ELSE IF startswith_mutating(query) /\ r.busy /\ active
               \* line 202: commit while the statement is still in progress
               THEN [out |-> raised("OperationalError",
                                    "cannot commit transaction - SQL statements in progress")]
                    @@ left
               ELSE IF r.description
               THEN [out |-> out("rows", "", "", "", <<>>)]
                    @@ (IF startswith_mutating(query) THEN saved ELSE left)
               ELSE [out |-> out("empty", "", "", "", <<>>)] @@ saved

ExecuteQuery(query, params) ==
    /\ LET r == execute_query(query, params, committed, txn)
       IN /\ qOut' = r.out
          /\ committed' = r.committed
          /\ txn' = r.txn
    /\ UNCHANGED <<uiVars, dbVars, seriesVars, concVars, schemaVars>>

\* the with block is left and a new accessor is opened on the store:
\* closing the connection discards what it had not committed
Reopen ==
    /\ qOut.kind # "idle"
    /\ txn' = Txn(FALSE, committed)
    /\ qOut' = NoQuery
    /\ UNCHANGED <<committed, uiVars, dbVars, seriesVars, concVars, schemaVars>>

QueryNext ==
    \/ \E query \in Statements, params \in ParamTuples : ExecuteQuery(query, params)
    \/ Reopen

QueryIdle ==
    /\ committed = NoTable
    /\ txn = Txn(FALSE, NoTable)
    /\ qOut = NoQuery

(***************************************************************************)
(* Requests served concurrently: each runs one of the module-level reads   *)
(* of db.py, `with SQLiteDB(db_name) as db: return db.<query>`, step by    *)
(* step: __init__, __enter__, the query, __exit__.                         *)
(***************************************************************************)
MaxRequests == 2

Requests == 1..MaxRequests

ReadCall(op, db_name, account) == [op |-> op, db_name |-> db_name, account |-> account]
ReadCalls ==
    {ReadCall("create_position_df", "a.db", SPY),
     ReadCall("create_position_df", "b.db", BRK_B),
     ReadCall("create_funds_df", "a.db", none)}

\* what the call returns when its connection is usable
read_result(call) ==
    IF call.op = "create_position_df"
    THEN create_position_df(call.db_name, call.account)
    ELSE create_funds_df(call.db_name)

NoRead == [pc |-> "idle", call |-> ReadCall("", "", none), conn |-> 0,
           result |-> [ok |-> FALSE, err |-> "none"]]

\* a connection that shares the first one opened, if there is one
connect_shared(cs, r) ==
    IF cs = <<>> THEN [conn |-> 1, pool |-> <<[owner |-> r, open |-> TRUE]>>]
    ELSE [conn |-> 1, pool |-> [cs EXCEPT ![1].open = TRUE]]

\* _create_connection: sqlite3.connect gives the instance a connection of
\* its own
connect(cs, r) ==
    [conn |-> Len(cs) + 1, pool |-> Append(cs, [owner |-> r, open |-> TRUE])]

\* a request arrives: SQLiteDB(db_name), i.e. __init__
Begin(r, call) ==
    /\ reqs[r].pc = "idle"
    /\ LET c == connect(pool, r)
       IN /\ pool' = c.pool
          /\ reqs' = [reqs EXCEPT ![r] = [pc |-> "constructed", call |-> call,
                                          conn |-> c.conn, result |-> NoRead.result]]
    /\ UNCHANGED <<uiVars, dbVars, seriesVars, queryVars, schemaVars>>

\* __enter__: a second connection replaces the first
EnterBlock(r) ==
    /\ reqs[r].pc = "constructed"
    /\ LET c == connect(pool, r)
       IN /\ pool' = c.pool
          /\ reqs' = [reqs EXCEPT ![r].pc = "entered", ![r].conn = c.conn]
    /\ UNCHANGED <<uiVars, dbVars, seriesVars, queryVars, schemaVars>>

\* the query inside the block, on the instance's connection
RunQuery(r) ==
    /\ reqs[r].pc = "entered"
    /\ reqs' = [reqs EXCEPT
                  ![r].pc = "queried",
                  ![r].result =
                      IF pool[reqs[r].conn].open THEN read_result(reqs[r].call)
                      ELSE [ok |-> FALSE, err |-> "sqlite3.Error"]]
    /\ UNCHANGED <<pool, uiVars, dbVars, seriesVars, queryVars, schemaVars>>

\* __exit__: close_connection on the instance's connection
LeaveBlock(r) ==
    /\ reqs[r].pc = "queried"
    /\ pool' = [pool EXCEPT ![reqs[r].conn].open = FALSE]
    /\ reqs' = [reqs EXCEPT ![r].pc = "done"]
    /\ UNCHANGED <<uiVars, dbVars, seriesVars, queryVars, schemaVars>>

\* every response has been sent; the instances are gone
Served ==
    /\ \A r \in Requests : reqs[r].pc \in {"idle", "done"}
    /\ \E r \in Requests : reqs[r].pc = "done"
    /\ reqs' = [r \in Requests |-> NoRead]
    /\ pool' = <<>>
    /\ UNCHANGED <<uiVars, dbVars, seriesVars, queryVars, schemaVars>>

ConcNext ==
    \/ \E r \in Requests, call \in ReadCalls : Begin(r, call)
    \/ \E r \in Requests : EnterBlock(r)
    \/ \E r \in Requests : RunQuery(r)
    \/ \E r \in Requests : LeaveBlock(r)
    \/ Served

ConcIdle ==
    /\ reqs = [r \in Requests |-> NoRead]
    /\ pool = <<>>

(***************************************************************************)
(* Table creation: create_database and create_position_table, each         *)
(* `with SQLiteDB(database) as db: db.execute_query(CREATE TABLE ...)`.    *)
(***************************************************************************)
MaxCalls == 3

\* the position names handed to create_position_table
Positions == {SPY, VOO, QQQ, BRK_B}

has_dot(name) == \E i \in 1..Len(name) : name[i] = "."

\* CREATE TABLE <name> (...) as the engine runs it: the name is spliced
\* into the statement unquoted, so a "." makes it <schema>.<table>
sqlite_create(ts, name) ==
    IF has_dot(name)
    THEN [ok |-> FALSE, err |-> "unknown database", tables |-> ts]
    ELSE IF name \in ts
    THEN [ok |-> FALSE, err |-> "already exists", tables |-> ts]
    ELSE [ok |-> TRUE, err |-> "", tables |-> ts \cup {name}]

create_fund_table(ts) == sqlite_create(ts, FundsTable)

create_database(ts) == create_fund_table(ts)

create_position_table(position, ts) == sqlite_create(ts, position)

Call(op, arg, r) == [op |-> op, arg |-> arg, ok |-> r.ok, err |-> r.err]

CreateDatabase ==
    /\ Len(calls) < MaxCalls
    /\ LET r == create_database(schema)
       IN /\ schema' = r.tables
          /\ calls' = Append(calls, Call("create_database", none, r))
    /\ UNCHANGED <<uiVars, dbVars, seriesVars, queryVars, concVars>>

CreatePositionTable(position) ==
    /\ Len(calls) < MaxCalls
    /\ LET r == create_position_table(position, schema)
       IN /\ schema' = r.tables
          /\ calls' = Append(calls, Call("create_position_table", position, r))
    /\ UNCHANGED <<uiVars, dbVars, seriesVars, queryVars, concVars>>

\* the store file is removed: the next call works on a fresh store
FreshStore ==
    /\ calls # <<>>
    /\ schema' = {}
    /\ calls' = <<>>
    /\ UNCHANGED <<uiVars, dbVars, seriesVars, queryVars, concVars>>

SchemaNext ==
    \/ CreateDatabase
    \/ \E position \in Positions : CreatePositionTable(position)
    \/ FreshStore

SchemaIdle ==
    /\ schema = {}
    /\ calls = <<>>

(***************************************************************************)
(* Specifications.                                                         *)
(***************************************************************************)
Init == UiInit /\ DbIdle /\ SeriesIdle /\ QueryIdle /\ ConcIdle /\ SchemaIdle
Next == UiNext
Spec == Init /\ [][Next]_vars

RequestInit == UiIdle /\ DbIdle /\ SeriesIdle /\ QueryIdle /\ ConcIdle /\ SchemaIdle
RequestSpec == RequestInit /\ [][RequestNext]_vars

DbInit == UiIdle /\ DbIdle /\ SeriesIdle /\ QueryIdle /\ ConcIdle /\ SchemaIdle
DbSpec == DbInit /\ [][DbNext]_vars

SeriesInit == UiIdle /\ DbIdle /\ SeriesIdle /\ QueryIdle /\ ConcIdle /\ SchemaIdle
SeriesSpec == SeriesInit /\ [][SeriesNext]_vars

QueryInit == UiIdle /\ DbIdle /\ SeriesIdle /\ QueryIdle /\ ConcIdle /\ SchemaIdle
QuerySpec == QueryInit /\ [][QueryNext]_vars

ConcInit == UiIdle /\ DbIdle /\ SeriesIdle /\ QueryIdle /\ ConcIdle /\ SchemaIdle
ConcSpec == ConcInit /\ [][ConcNext]_vars

SchemaInit == UiIdle /\ DbIdle /\ SeriesIdle /\ QueryIdle /\ ConcIdle /\ SchemaIdle
SchemaSpec == SchemaInit /\ [][SchemaNext]_vars

(***************************************************************************)
(* Claims about the selection resolver (RequestSpec).                      *)
(***************************************************************************)
MarkedFunds == {i \in 1..Len(fundButtons) : fundButtons[i].className = Active}
MarkedDurations == {i \in 1..Len(durationClass) : durationClass[i] = Active}
GroupFunds == {fundButtons[i].index : i \in 1..Len(fundButtons)}

\* the fund the specification asks for when a duration button triggers
ExpectedFund ==
    IF MarkedFunds # {}
    THEN fundButtons[CHOOSE i \in MarkedFunds : TRUE].index
    ELSE fundButtons[1].index

\* the duration the specification asks for when a fund button triggers
ExpectedDuration ==
    IF MarkedDurations # {}
    THEN button_labels[CHOOSE i \in MarkedDurations : TRUE]
    ELSE Total

LoadRan == trigger.present /\ "load" \notin pending
ValueRan == trigger.present /\ "value" \notin pending

ResolvedTo(out, fund, duration) ==
    out.resolved /\ out.fund = fund /\ out.duration = duration

\* C1: when a duration button triggers the request and the fund group has
\* members, both load_and_store_data and update_value_display resolve
\* (the fund whose marker is active, or the first fund when none is;
\* the triggered duration).
C1_DurationTriggerResolves ==
    \A x \in Range(button_labels) :
        (trigger = Triggered(ButtonId("duration-button", x)) /\ fundButtons # <<>>)
        => /\ LoadRan => ResolvedTo(loadOut, ExpectedFund, x)
           /\ ValueRan => ResolvedTo(valueOut, ExpectedFund, x)

\* C2: when a fund button of the group triggers the request, both callbacks
\* resolve (the triggered fund; the duration whose marker is active, or
\* Total when none is).
C2_FundTriggerResolves ==
    \A x \in GroupFunds :
        trigger = Triggered(ButtonId("fund-button", x))
        => /\ LoadRan => ResolvedTo(loadOut, x, ExpectedDuration)
           /\ ValueRan => ResolvedTo(valueOut, x, ExpectedDuration)

\* the trigger names a fund that is not in the fund group, or a duration
\* that is not a duration button
TriggerUnknown ==
    \/ \E x \in TriggerFunds \ GroupFunds :
          trigger = Triggered(ButtonId("fund-button", x))
    \/ \E x \in TriggerDurations \ Range(button_labels) :
          trigger = Triggered(ButtonId("duration-button", x))

FailedUnresolved(out) ==
    /\ out.kind = "error"
    /\ out.err = "SelectionResolutionError"
    /\ ~out.resolved
    /\ ~out.queried

\* C8: a trigger naming no known member of its group makes the resolver fail
\* with SelectionResolutionError, without resolving a pair and before any
\* storage query.
C8_UnknownMemberRejected ==
    TriggerUnknown
    => /\ LoadRan => FailedUnresolved(loadOut)
       /\ ValueRan => FailedUnresolved(valueOut)

(***************************************************************************)
(* Claims about the storage accessor (DbSpec).                             *)
(***************************************************************************)
\* C3: once the `with SQLiteDB(path) as db:` block is left, every connection
\* the instance opened is closed.
C3_ScopedRelease ==
    dbPc = "left" => \A i \in 1..Len(conns) : ~conns[i].open

\* C4: get_database_tables(database=other) ends, whether it returns or
\* raises, with the original target restored and a connection to it open.
C4_TargetRestored ==
    (dbOut.op = "get_database_tables" /\ dbOut.arg # "")
    => /\ dbObj.database = dbOut.orig
       /\ dbObj.conn # 0
       /\ conns[dbObj.conn].open
       /\ conns[dbObj.conn].target = dbOut.orig

(***************************************************************************)
(* Claims about the metrics engine and the duration filter (SeriesSpec).   *)
(***************************************************************************)
RowsFor(duration) == Range(filter_dataframe_by_duration(series.df, duration).rows)
ReturnsRows(duration) ==
    filter_dataframe_by_duration(series.df, duration).kind = "rows"

\* the statement of C5 as the specification gives it: 1WK within 1MO within
\* 3MO, and 3MO within each of 1YR, YTD and Total
C5_MonotonicWithYTD ==
    (series.done /\ series.df # <<>>)
    => /\ RowsFor(OneWK) \subseteq RowsFor(OneMO)
       /\ RowsFor(OneMO) \subseteq RowsFor(ThreeMO)
       /\ RowsFor(ThreeMO) \subseteq RowsFor(OneYR)
       /\ RowsFor(ThreeMO) \subseteq RowsFor(YTD)
       /\ RowsFor(ThreeMO) \subseteq RowsFor(Total)

\* C5 (amended): for any non-empty series every recognized token returns
\* rows, rows(1WK) is within rows(1MO), rows(1MO) within rows(3MO), rows(3MO)
\* within rows(1YR), and rows(1YR) and rows(YTD) are within rows(Total), with
\* rows(YTD) within rows(1YR); rows(3MO) need not be within rows(YTD).
C5_Monotonic ==
    (series.done /\ series.df # <<>>)
    => /\ \A duration \in RecognizedTokens : ReturnsRows(duration)
       /\ RowsFor(OneWK) \subseteq RowsFor(OneMO)
       /\ RowsFor(OneMO) \subseteq RowsFor(ThreeMO)
       /\ RowsFor(ThreeMO) \subseteq RowsFor(OneYR)
       /\ RowsFor(OneYR) \subseteq RowsFor(Total)
       /\ RowsFor(YTD) \subseteq RowsFor(OneYR)
       /\ RowsFor(YTD) \subseteq RowsFor(Total)

\* a series filtered by 1WK that lost a row which 1MO keeps, while 3MO keeps
\* a row which YTD drops
C5_Witness ==
    /\ series.done
    /\ token = OneWK
    /\ filtered.kind = "rows"
    /\ Range(filtered.rows) # RowsFor(OneMO)
    /\ Range(filtered.rows) \subseteq RowsFor(OneMO)

\* the stored rows in ascending order of their parsed Date
RECURSIVE Ascending(_)
Ascending(rows) ==
    IF rows = <<>> THEN <<>>
    ELSE LET i == CHOOSE k \in 1..Len(rows) :
                      \A j \in 1..Len(rows) :
                          Ordinal(to_datetime(rows[k].Date))
                              <= Ordinal(to_datetime(rows[j].Date))
         IN <<rows[i]>>
            \o Ascending(SubSeq(rows, 1, i - 1) \o SubSeq(rows, i + 1, Len(rows)))

\* C6: whatever the order in which the rows were inserted, the derived
\* columns create_position_df returns are those computed over the rows in
\* ascending Date order.
C6_ComputedInDateOrder ==
    series.done => Range(series.df) = Range(position_metrics(Ascending(ledger)))

\* C7: a token outside {Total, YTD, 1YR, 3MO, 1MO, 1WK} makes the filter fail
\* with UnknownDurationToken; it returns no rows.
C7_UnknownTokenRejected ==
    (series.done /\ filtered.kind # "idle" /\ token \notin RecognizedTokens)
    => /\ filtered.kind = "error"
       /\ filtered.err = "UnknownDurationToken"
       /\ filtered.rows = <<>>

(***************************************************************************)
(* Claims about the dashboard (Spec).                                      *)
(***************************************************************************)
\* C9: in every reachable state each button group has at most one member
\* carrying the active marker.
C9_AtMostOneActive ==
    /\ Cardinality(MarkedFunds) <= 1
    /\ Cardinality(MarkedDurations) <= 1

\* after clicks, the markers sit on a fund other than the first and on a
\* duration other than Total
C9_Witness ==
    /\ interacted
    /\ pending = {}
    /\ \E i \in MarkedFunds : i # 1
    /\ \E i \in MarkedDurations : button_labels[i] # Total

NothingResolved(out) ==
    /\ out.kind \in {"idle", "PreventUpdate"}
    /\ ~out.resolved
    /\ ~out.queried

ButtonsGenerated ==
    /\ dbPath # NoPath
    /\ "generate" \notin pending
    /\ generate_fund_buttons(dbPath).update
    /\ fundButtons # <<>>

\* C11: every fund that generate_fund_buttons offers as a button is listed
\* in the Funds table of the store it was given and has a ledger table of
\* the same name in that store.
C11_OfferedFundsHaveLedger ==
    ButtonsGenerated
    => \A i \in 1..Len(fundButtons) :
           /\ fundButtons[i].index \in Range(Files[dbPath].funds)
           /\ fundButtons[i].index \in DOMAIN Files[dbPath].ledgers

(***************************************************************************)
(* Claims about execute_query (QuerySpec).                                 *)
(***************************************************************************)
QueryCalled == qOut.kind # "idle"
QueryFailed == qOut.kind = "error"
LeftUnchanged == committed = qOut.before.committed /\ txn = qOut.before.txn

\* C12: whenever the number of positional placeholders of the query (its "?"
\* and "%s" placeholders) differs from len(params), execute_query raises
\* ValueError and leaves the store and the connection as they were.
C12_MismatchRaisesValueError ==
    (QueryCalled /\ placeholders(str_replace(qOut.query)) # Len(qOut.params))
    => (QueryFailed /\ qOut.err = "ValueError" /\ LeftUnchanged)

\* C13: a statement that starts with INSERT, UPDATE, DELETE, CREATE or DROP
\* and succeeds is committed when execute_query returns; when it fails, the
\* store and what the connection sees of it are as before the statement.
C13_MutatingCommitOrNothing ==
    (QueryCalled /\ startswith_mutating(qOut.query))
    => /\ ~QueryFailed => (~txn.active /\ committed = txn.view)
       /\ QueryFailed => /\ committed = qOut.before.committed
                         /\ txn.view = qOut.before.txn.view

\* C14: every engine failure during execute_query reaches the caller as
\* sqlite3.Error whose message embeds the engine's message, never as the
\* engine's more specific error class.
C14_EngineFailuresTranslated ==
    (QueryFailed /\ qOut.cls # "")
    => /\ qOut.err = "sqlite3.Error"
       /\ qOut.err # qOut.cls
       /\ qOut.msg = <<"Failed to execute query: ", qOut.engineMsg>>

\* an INSERT of an existing key was refused by the engine
C14_Witness ==
    /\ QueryFailed
    /\ qOut.cls = "IntegrityError"
    /\ Keyword(qOut.query) = "INSERT"
    /\ qOut.err = "sqlite3.Error"

(***************************************************************************)
(* Claims about the derived columns and the filter's rows (SeriesSpec).    *)
(***************************************************************************)
IsAscending(rows) ==
    \A i, j \in 1..Len(rows) :
        i < j => Ordinal(to_datetime(rows[i].Date)) < Ordinal(to_datetime(rows[j].Date))

RECURSIVE SumCredit(_, _)
SumCredit(rows, i) == IF i = 0 THEN 0 ELSE SumCredit(rows, i - 1) + rows[i].Credit

\* C15: for a ledger stored in ascending Date order, CumCredit of every row i
\* of the computed series is the sum of the Credit values of rows 0..i.
C15_CumCreditIsRunningSum ==
    (series.done /\ IsAscending(ledger))
    => /\ Len(series.df) = Len(ledger)
       /\ \A i \in 1..Len(ledger) :
              series.df[i].CumCredit = Flt(SumCredit(ledger, i))

\* two contributions have been added up
C15_Witness ==
    /\ series.done
    /\ IsAscending(ledger)
    /\ Len(ledger) >= 2
    /\ \A i \in 1..Len(ledger) : ledger[i].Credit > 0
    /\ series.df[Len(ledger)].CumCredit = Flt(2000)

\* C16: in the computed series DollarDelta of the first row is undefined
\* (nan), and DollarDelta of every later row i is
\* Close[i] - (Close[i-1] + Credit[i]).
C16_DollarDelta ==
    series.done
    => \A i \in 1..Len(series.df) :
           IF i = 1 THEN series.df[i].DollarDelta = NaN
           ELSE series.df[i].DollarDelta
                    = Flt(ledger[i].Close - (ledger[i - 1].Close + ledger[i].Credit))

\* a second row whose value rose by more than its contribution
C16_Witness ==
    /\ series.done
    /\ Len(series.df) >= 2
    /\ series.df[1].DollarDelta = NaN
    /\ series.df[2].DollarDelta = Flt(50)

\* C17: Percentage of a row is the undefined value (nan) exactly when its
\* CumCredit is 0, and is (Close/CumCredit - 1) * 100 in every other row.
C17_PercentageUndefinedAtZero ==
    series.done
    => \A i \in 1..Len(series.df) :
           LET cum == SumCredit(ledger, i)
           IN /\ (series.df[i].Percentage = NaN) <=> (series.df[i].CumCredit = Flt(0))
              /\ cum # 0
                 => series.df[i].Percentage = Num((ledger[i].Close - cum) * 100, cum)

\* C18: for a fund with no ledger rows create_position_df returns an empty
\* frame, and the filter applied to that frame returns no rows and no error
\* for every recognized token.
C18_EmptyLedgerEmptyResult ==
    (series.done /\ ledger = <<>>)
    => /\ series.df = <<>>
       /\ \A duration \in RecognizedTokens :
              filter_dataframe_by_duration(series.df, duration)
                  = [kind |-> "rows", err |-> "", rows |-> <<>>]
       /\ filtered.kind \in {"idle", "rows"}

\* the cutoff the token names, from the latest date [y, m, d]
OwnDay(y, m, d) ==
    Ordinal([y |-> y, m |-> m, d |-> IF d <= DaysInMonth(y, m) THEN d ELSE DaysInMonth(y, m)])
MonthsBack(dt, k) ==
    IF dt.m > k THEN OwnDay(dt.y, dt.m - k, dt.d) ELSE OwnDay(dt.y - 1, dt.m + 12 - k, dt.d)
Cutoff(dt, duration) ==
    CASE duration = YTD -> Ordinal([y |-> dt.y, m |-> 1, d |-> 1])
      [] duration = OneYR -> OwnDay(dt.y - 1, dt.m, dt.d)
      [] duration = ThreeMO -> MonthsBack(dt, 3)
      [] duration = OneMO -> MonthsBack(dt, 1)
      [] duration = OneWK -> Ordinal(dt) - 7

LatestRow == CHOOSE r \in Range(series.df) :
                 \A x \in Range(series.df) : Ordinal(x.Date) <= Ordinal(r.Date)

OnOrAfterCutoff(duration) ==
    SelectSeq(series.df,
              LAMBDA r : Ordinal(r.Date) >= Cutoff(LatestRow.Date, duration))

\* C19: for each of YTD, 1YR, 3MO, 1MO, 1WK and every series that has a
\* latest date, the filter returns exactly the rows dated on or after the
\* token's cutoff from that latest date, in their order and unchanged.
C19_RowsOnOrAfterCutoff ==
    (series.done /\ series.df # <<>>)
    => /\ \A duration \in RecognizedTokens \ {Total} :
              filter_dataframe_by_duration(series.df, duration)
                  = [kind |-> "rows", err |-> "", rows |-> OnOrAfterCutoff(duration)]
       /\ (filtered.kind # "idle" /\ token \in RecognizedTokens \ {Total})
          => (filtered.kind = "rows" /\ filtered.rows = OnOrAfterCutoff(token))

\* 1WK kept the latest row and a row dated exactly on the cutoff
C19_Witness ==
    /\ series.done
    /\ token = OneWK
    /\ filtered.kind = "rows"
    /\ Len(filtered.rows) = 2
    /\ \E i \in 1..Len(filtered.rows) :
           Ordinal(filtered.rows[i].Date) = Ordinal(LatestRow.Date) - 7

\* C20: with the token Total the filter returns its input: the same rows, in
\* the same order, with the same values.
C20_TotalIsIdentity ==
    series.done
    => /\ filter_dataframe_by_duration(series.df, Total)
              = [kind |-> "rows", err |-> "", rows |-> series.df]
       /\ (filtered.kind # "idle" /\ token = Total)
          => (filtered.kind = "rows" /\ filtered.rows = series.df)

\* Total was applied to a series of several rows
C20_Witness ==
    /\ series.done
    /\ token = Total
    /\ filtered.kind = "rows"
    /\ Len(filtered.rows) >= 2
    /\ filtered.rows = series.df

\* C30: for every non-empty series and every recognized duration token the
\* filter returns rows, at least one, the row with the latest Date among
\* them, so the first and last rows update_value_display reads exist.
C30_LatestRowKept ==
    (series.done /\ series.df # <<>>)
    => /\ \A duration \in RecognizedTokens :
              LET f == filter_dataframe_by_duration(series.df, duration)
              IN /\ f.kind = "rows"
                 /\ f.rows # <<>>
                 /\ LatestRow \in Range(f.rows)
       /\ (filtered.kind # "idle" /\ token \in RecognizedTokens)
          => /\ filtered.kind = "rows"
             /\ filtered.rows # <<>>
             /\ LatestRow \in Range(filtered.rows)

\* YTD dropped a row of the year before and kept the latest row
C30_Witness ==
    /\ series.done
    /\ Len(series.df) = 2
    /\ token = YTD
    /\ filtered.kind = "rows"
    /\ filtered.rows = <<LatestRow>>


\* C21: create_position_df does not reorder its input: row i of its result is
\* the row storage returned at place i (same Date, Credit and Close).
C21_RowOrderKept ==
    series.done
    => /\ Len(series.df) = Len(ledger)
       /\ \A i \in 1..Len(ledger) :
              /\ series.df[i].Date = to_datetime(ledger[i].Date)
              /\ series.df[i].Credit = Flt(ledger[i].Credit)
              /\ series.df[i].Close = Flt(ledger[i].Close)

\* a series computed from rows that storage returned out of Date order
C21_Witness ==
    /\ series.done
    /\ Len(series.df) >= 2
    /\ Ordinal(series.df[1].Date) > Ordinal(series.df[2].Date)

(***************************************************************************)
(* Claims about requests in the dashboard (Spec).                          *)
(***************************************************************************)
\* C25: for every trigger event and every snapshot of the two groups,
\* load_and_store_data and update_value_display resolve the same
\* (fund, duration) pair, the first-fund default included.
C25_ResolversAgree ==
    (LoadRan /\ ValueRan)
    => /\ loadOut.resolved = valueOut.resolved
       /\ loadOut.resolved
          => /\ loadOut.fund = valueOut.fund
             /\ loadOut.duration = valueOut.duration


\* the pair the click history calls for
ClickedFund == IF clicked.fund # none THEN clicked.fund ELSE fundButtons[1].index
ClickedDuration == IF clicked.duration # none THEN clicked.duration ELSE Total

\* C26: after any sequence of fund and duration clicks on a loaded store,
\* each click's style update applied before the next click, the pair
\* load_and_store_data resolves for the latest click is (the fund clicked
\* last, or the first fund if none was clicked since the fund buttons were
\* generated; the duration clicked last, or Total if none ever was).
C26_LatestClickResolved ==
    (trigger.present /\ fundButtons # <<>> /\ "load" \notin pending)
    => ResolvedTo(loadOut, ClickedFund, ClickedDuration)


\* C27: whatever files were uploaded (valid stores, stores with an empty
\* Funds table, stores with no valid fund, files that are not .db), once the
\* callbacks of an upload have run every fund button on the page names a
\* ledger table of the store db-path points to.  The formula asks for less
\* than that, a table of that name in the store at all, so that a fund named
\* after the Funds table (C11) does not count against it.
C27_ButtonsNameTablesOfCurrentStore ==
    (pending = {} /\ fundButtons # <<>>)
    => /\ dbPath # NoPath
       /\ \A i \in 1..Len(fundButtons) :
              fundButtons[i].index \in TableNames(Files[dbPath])



LoadStep == "load" \in pending /\ "load" \notin pending'
ValueStep == "value" \in pending /\ "value" \notin pending'

\* the (fund, duration) pair of a resolver outcome, or how it failed
Selection(out) ==
    [kind |-> IF out.resolved THEN "resolved" ELSE out.kind,
     err |-> IF out.resolved THEN "" ELSE out.err,
     fund |-> out.fund, duration |-> out.duration]

C23_RequestsIndependent ==
    /\ \A r \in Requests :
           reqs[r].pc \in {"queried", "done"}
           => reqs[r].result = read_result(reqs[r].call)
    /\ \A r \in Requests :
           reqs[r].conn # 0 => pool[reqs[r].conn].owner = r
    /\ \A r1, r2 \in Requests :
           (r1 # r2 /\ reqs[r1].conn # 0) => reqs[r1].conn # reqs[r2].conn

\* one request finished and closed its connection while another request on
\* the same store had entered its block and then ran its query
C23_Witness ==
    \E r1, r2 \in Requests :
        /\ r1 # r2
        /\ reqs[r1].pc = "done"
        /\ reqs[r2].pc = "queried"
        /\ reqs[r1].call.db_name = reqs[r2].call.db_name
        /\ reqs[r2].conn < reqs[r1].conn
        /\ reqs[r2].result.ok

\* C24: on a fresh store, create_database followed by
\* create_position_table(p) both complete without error, and the store then
\* holds the table Funds and the ledger table p.
C24_FreshStoreTablesCreated ==
    (/\ Len(calls) = 2
     /\ calls[1].op = "create_database"
     /\ calls[2].op = "create_position_table")
    => /\ calls[1].ok
       /\ calls[2].ok
       /\ {FundsTable, calls[2].arg} \subseteq schema

FundStylesStep == "fund_styles" \in pending /\ "fund_styles" \notin pending'
DurationStylesStep ==
    "duration_styles" \in pending /\ "duration_styles" \notin pending'

\* C28: for one click, load_and_store_data resolves the same (fund,
\* duration) pair whether it runs before or after the style update the click
\* fires (update_fund_button_styles or update_duration_button_styles): run
\* on the markers as they are before the style update and as they are after
\* it, it resolves the same pair.
C28_SameBeforeAndAfterStyles ==
    [][(FundStylesStep \/ DurationStylesStep)
       => Selection(load_and_store_data_selection(
                        trigger, durationClass, duration_id, fund_class, fund_id))
          = Selection(load_and_store_data_selection(
                          trigger', durationClass', duration_id,
                          [i \in 1..Len(fundButtons') |-> fundButtons'[i].className],
                          fund_id))]_vars

\* load_and_store_data has resolved the clicked fund while the style update
\* of that click has not run yet: the marker is still on another fund
C28_Witness ==
    /\ trigger.present
    /\ "fund_styles" \in pending
    /\ "load" \notin pending
    /\ loadOut.resolved
    /\ active_fund(fund_class, fund_id) # none
    /\ loadOut.fund # active_fund(fund_class, fund_id)

\* C29: get_table_columns(table, database=other) ends on every path
\* (success, nonexistent table, engine error during the query, failure to
\* open the other store) with the accessor's original target restored and a
\* connection to it open.
C29_ColumnsTargetRestored ==
    (dbOut.op = "get_table_columns" /\ dbOut.arg # "")
    => /\ dbObj.database = dbOut.orig
       /\ dbObj.conn # 0
       /\ conns[dbObj.conn].open
       /\ conns[dbObj.conn].target = dbOut.orig

====
